---- MODULE Spec2Model ----
(***************************************************************************)
(* A model of komorebi's event-driven window-manager state machine:        *)
(* WindowManager::process_event (komorebi/src/process_event.rs) over the   *)
(* Monitor -> Workspace -> Container -> Window hierarchy, the event loop   *)
(* of listen_for_events, and the start-up / shutdown path of main          *)
(* (komorebi/src/main.rs).                                                 *)
(*                                                                         *)
(* Indices (focused_monitor_idx, focused_workspace_idx,                    *)
(* focused_container_idx, layout slots) keep the source's 0-based values;  *)
(* a TLA+ sequence is indexed by idx + 1.                                  *)
(***************************************************************************)
EXTENDS Integers, Sequences, FiniteSets, TLC

\* ------------------------------------------------------------------ bounds
MaxHwnd == 2
NumMonitors == 2
NumWorkspaces == 1
\* Events the event source sends in the specification of the threads.
MaxEvents == 3

Hwnds == 1..MaxHwnd

EventKinds ==
    {"FocusChange", "Show", "Hide", "Destroy", "Minimize", "MoveResizeEnd", "MouseCapture"}

\* ------------------------------------------------------------------ state
VARIABLES
    monitors,            \* WindowManager.monitors: Seq of Monitor
    focused_monitor_idx, \* WindowManager.monitors focus index (0-based)
    is_paused,           \* WindowManager.is_paused
    known_hwnds,         \* contents of ~/komorebi.hwnd.json
    last,                \* the process_event call in progress: its event, inputs and outcome
    only_shows,          \* history: nothing but unpaused Show events has happened so far
    incoming_events,     \* the unbounded channel from the event source (main.rs 131-132)
    wm_lock,             \* holder of the Arc<Mutex<WindowManager>>: "free" or a thread
    pc,                  \* where the event-loop thread and the command thread are
    current,             \* the event the event loop has received
    sent,                \* number of events the event source has sent
    begun,               \* history: events whose process_event call began, in order
    ended,               \* history: events whose process_event call returned, in order
    failed,              \* history: events whose process_event call returned an error
    probe                \* a drag handed to the move/resize classification alone

wmVars == <<monitors, focused_monitor_idx, is_paused, known_hwnds>>

callVars == <<last, only_shows>>

threadVars == <<incoming_events, wm_lock, pc, current, sent, begun, ended, failed>>

vars == <<wmVars, callVars, threadVars, probe>>

\* ------------------------------------------------------------------ rectangles
Rect(l, t, r, b) == [left |-> l, top |-> t, right |-> r, bottom |-> b]

NoRect == Rect(0, 0, 0, 0)

\* The work area of monitor m (1-based position in monitors): monitors side by side.
work_area_size(m) == Rect((m - 1) * 200, 0, 200, 100)

\* Workspace layout: one column per container, left to right; a pure function
\* of the work area and the container count.
Layout(work_area, n) ==
    [k \in 1..n |->
        Rect(work_area.left + (k - 1) * (work_area.right \div n),
             work_area.top,
             work_area.right \div n,
             work_area.bottom)]

\* Whether a point lies in a rectangle (right/bottom are width/height).
RectContains(r, p) ==
    /\ r.left <= p.x /\ p.x < r.left + r.right
    /\ r.top <= p.y /\ p.y < r.top + r.bottom

\* ------------------------------------------------------------------ sequences
RemoveAt(s, i) == SubSeq(s, 1, i - 1) \o SubSeq(s, i + 1, Len(s))

RECURSIVE Flatten(_)
Flatten(ss) == IF ss = <<>> THEN <<>> ELSE Head(ss) \o Flatten(Tail(ss))

Range(s) == {s[i] : i \in 1..Len(s)}

Min2(a, b) == IF a < b THEN a ELSE b

Max2(a, b) == IF a > b THEN a ELSE b

\* ------------------------------------------------------------------ Workspace
EmptyWorkspace ==
    [containers |-> <<>>,
     floating_windows |-> {},
     focused_container_idx |-> 0,
     latest_layout |-> <<>>]

\* Workspace::contains_window: some container holds the handle.
contains_window(ws, hwnd) ==
    \E i \in 1..Len(ws.containers) : hwnd \in Range(ws.containers[i])

\* Position (1-based) of the first container holding hwnd, 0 when there is none.
container_idx_for_window(ws, hwnd) ==
    IF contains_window(ws, hwnd)
    THEN CHOOSE i \in 1..Len(ws.containers) :
            /\ hwnd \in Range(ws.containers[i])
            /\ \A k \in 1..(i - 1) : hwnd \notin Range(ws.containers[k])
    ELSE 0

\* Keeps the focused index inside the container list.
ClampFocus(ws) ==
    [ws EXCEPT !.focused_container_idx =
        Max2(0, Min2(ws.focused_container_idx, Len(ws.containers) - 1))]

\* Workspace::update: recompute latest_layout, one rectangle per container.
update(ws, work_area) ==
    [ws EXCEPT !.latest_layout = Layout(work_area, Len(ws.containers))]

\* Workspace::remove_window: drop the handle from the floating windows or from
\* its container, and drop the container when it is left empty.
remove_window(ws, hwnd) ==
    IF hwnd \in ws.floating_windows
    THEN [ok |-> TRUE, ws |-> [ws EXCEPT !.floating_windows = @ \ {hwnd}]]
    ELSE LET i == container_idx_for_window(ws, hwnd) IN
         IF i = 0
         THEN [ok |-> FALSE, ws |-> ws]
         ELSE LET c == SelectSeq(ws.containers[i], LAMBDA w : w # hwnd)
                  cs == IF c = <<>> THEN RemoveAt(ws.containers, i)
                        ELSE [ws.containers EXCEPT ![i] = c]
              IN [ok |-> TRUE, ws |-> ClampFocus([ws EXCEPT !.containers = cs])]

\* Workspace::reap_orphans: remove the windows whose handle is invalid, then the
\* containers left empty; returns (windows removed, containers removed).
reap_orphans(ws, invalid) ==
    LET kept == [i \in 1..Len(ws.containers) |->
                    SelectSeq(ws.containers[i], LAMBDA w : w \notin invalid)]
        nwin == Len(Flatten(ws.containers)) - Len(Flatten(kept))
        live == SelectSeq(kept, LAMBDA c : c # <<>>)
    IN [windows |-> nwin,
        containers |-> Len(kept) - Len(live),
        ws |-> ClampFocus([ws EXCEPT !.containers = live])]

\* Workspace::new_container_for_window: a new container holding the window, in
\* the next slot, focused.
new_container_for_window(ws, hwnd) ==
    [ws EXCEPT !.containers = Append(@, <<hwnd>>),
               !.focused_container_idx = Len(ws.containers)]

\* Workspace::swap_containers(i, j), 0-based slots.
swap_containers(ws, i, j) ==
    [ws EXCEPT !.containers =
        [@ EXCEPT ![i + 1] = ws.containers[j + 1], ![j + 1] = ws.containers[i + 1]]]

\* Workspace::container_idx_from_current_point: the first slot of latest_layout
\* under the pointer (0-based), -1 for None.
container_idx_from_current_point(ws, point) ==
    LET hits == {k \in 1..Len(ws.latest_layout) : RectContains(ws.latest_layout[k], point)}
    IN IF hits = {} THEN -1
       ELSE (CHOOSE k \in hits : \A k2 \in hits : k <= k2) - 1

\* Workspace::focus_container_by_window.
focus_container_by_window(ws, hwnd) ==
    LET i == container_idx_for_window(ws, hwnd) IN
    IF i = 0 THEN [ok |-> FALSE, ws |-> ws]
    ELSE [ok |-> TRUE, ws |-> [ws EXCEPT !.focused_container_idx = i - 1]]

\* ------------------------------------------------------------------ WindowManager
\* A WindowManager value: the monitors and the focused-monitor index.
WM(ms, fm) == [monitors |-> ms, focused_monitor_idx |-> fm]

EmptyMonitor(m) ==
    [work_area_size |-> work_area_size(m),
     workspaces |-> [j \in 1..NumWorkspaces |-> EmptyWorkspace],
     focused_workspace_idx |-> 0]

focused_monitor(wm) == wm.monitors[wm.focused_monitor_idx + 1]

focused_workspace(wm) ==
    focused_monitor(wm).workspaces[focused_monitor(wm).focused_workspace_idx + 1]

\* Writes ws back through focused_workspace_mut().
with_focused_workspace(wm, ws) ==
    [wm EXCEPT !.monitors[wm.focused_monitor_idx + 1]
                 .workspaces[focused_monitor(wm).focused_workspace_idx + 1] = ws]

\* WindowManager::focus_monitor(idx).
focus_monitor(wm, idx) ==
    IF idx \in 0..(Len(wm.monitors) - 1)
    THEN [ok |-> TRUE, wm |-> [wm EXCEPT !.focused_monitor_idx = idx]]
    ELSE [ok |-> FALSE, wm |-> wm]

\* WindowManager::focus_workspace(idx), on the focused monitor.
focus_workspace(wm, idx) ==
    IF idx \in 0..(Len(focused_monitor(wm).workspaces) - 1)
    THEN [ok |-> TRUE,
          wm |-> [wm EXCEPT !.monitors[wm.focused_monitor_idx + 1].focused_workspace_idx = idx]]
    ELSE [ok |-> FALSE, wm |-> wm]

\* WindowManager::update_focused_workspace(flag): a hard update always
\* recomputes the layout, a soft update only when the container count changed.
update_focused_workspace(wm, hard) ==
    LET ws == focused_workspace(wm) IN
    IF hard \/ Len(ws.latest_layout) # Len(ws.containers)
    THEN with_focused_workspace(wm, update(ws, focused_monitor(wm).work_area_size))
    ELSE wm

UpdateKind(hard) == IF hard THEN "hard" ELSE "soft"

\* ------------------------------------------------------------------ platform
\* Window::exe: the executable owning a handle.
exe(hwnd) == IF hwnd % 2 = 1 THEN "explorer.exe" ELSE "notepad.exe"

MULTI_WINDOW_EXES ==
    {"explorer.exe", "firefox.exe", "chrome.exe", "idea64.exe",
     "ApplicationFrameHost.exe", "steam.exe"}

\* What set_position adds around a layout rectangle: the raw window rectangle
\* WindowsApi::window_rect reports for a window placed at r.
RawOf(r) == Rect(r.left - 12, r.top, r.right + 24, r.bottom + 12)

\* ------------------------------------------------------------------ process_event
NoDrag ==
    [old_position |-> NoRect, new_position |-> NoRect, resize |-> NoRect,
     is_move |-> FALSE, target |-> -1, ops |-> <<>>]

\* The outcome of one stage: result "cont" goes on to the next stage, "Ok" and
\* "Err" are returns of process_event.
Out(wm, result, branch, upd, drag) ==
    [wm |-> wm, result |-> result, branch |-> branch, update |-> upd, drag |-> drag]

\* Mutant of ignoring_while_paused: the pause flag is not consulted.
ignoring_while_paused_never(paused) == FALSE

\* process_event lines 45-48.
ignoring_while_paused(paused) == paused

\* Mutant of focus_resync: events of every kind are resynced.
focus_resync_every_kind(wm, event, monitor_idx) ==
    IF monitor_idx = -1
    THEN [ok |-> FALSE, wm |-> wm]
    ELSE focus_monitor(wm, monitor_idx)

\* process_event lines 51-62: the focus resync; monitor_idx is what
\* monitor_idx_from_window answers, -1 for None.
focus_resync(wm, event, monitor_idx) ==
    IF event.kind \in {"FocusChange", "Show", "MoveResizeEnd"}
    THEN IF monitor_idx = -1
         THEN [ok |-> FALSE, wm |-> wm]
         ELSE focus_monitor(wm, monitor_idx)
    ELSE [ok |-> TRUE, wm |-> wm]

\* Mutant of reaped_anything: a reaped workspace is not updated.
reaped_anything_ignored(r) == FALSE

\* process_event lines 68-69: whether a workspace is updated after reaping.
reaped_anything(r) == r.windows > 0 \/ r.containers > 0

\* process_event lines 64-79: orphan reaping over every workspace of every monitor.
reap_all(wm, invalid) ==
    [wm EXCEPT !.monitors =
        [i \in 1..Len(wm.monitors) |->
            [wm.monitors[i] EXCEPT !.workspaces =
                [j \in 1..Len(wm.monitors[i].workspaces) |->
                    LET r == reap_orphans(wm.monitors[i].workspaces[j], invalid) IN
                    IF reaped_anything(r)
                    THEN update(r.ws, wm.monitors[i].work_area_size)
                    ELSE r.ws]]]]

\* process_event lines 81-84.
only_reaping(event) == event.kind = "MouseCapture"

\* process_event lines 87-90 (and 100-101): remove from the focused workspace,
\* then update_focused_workspace(false).
remove_arm(wm, hwnd, branch) ==
    LET r == remove_window(focused_workspace(wm), hwnd) IN
    IF ~r.ok
    THEN Out(wm, "Err", branch, "none", NoDrag)
    ELSE Out(update_focused_workspace(with_focused_workspace(wm, r.ws), FALSE),
             "cont", branch, UpdateKind(FALSE), NoDrag)

\* Mutant of hide_is_removal: the allow-list is not consulted.
hide_is_removal_no_allow_list(is_window, exe_name, hidden) ==
    ~is_window \/ exe_name \in MULTI_WINDOW_EXES

\* Mutant of hide_is_removal: the allow-list guards the multi-window list only.
hide_is_removal_invalid_unguarded(is_window, exe_name, hidden) ==
    ~is_window \/ (exe_name \in MULTI_WINDOW_EXES /\ ~hidden)

\* process_event lines 97-98: whether a Hide is treated as a removal.
hide_is_removal(is_window, exe_name, hidden) ==
    (~is_window \/ exe_name \in MULTI_WINDOW_EXES) /\ ~hidden

\* process_event lines 92-103.
hide_arm(wm, hwnd, is_window, hidden) ==
    IF hide_is_removal(is_window, exe(hwnd), hidden)
    THEN remove_arm(wm, hwnd, "hide-remove")
    ELSE Out(wm, "cont", "hide-ignore", "none", NoDrag)

\* process_event lines 104-116.
focus_change_arm(wm, hwnd) ==
    IF hwnd \in focused_workspace(wm).floating_windows
    THEN Out(wm, "Ok", "focus-floating", "none", NoDrag)
    ELSE LET r == focus_container_by_window(focused_workspace(wm), hwnd) IN
         IF ~r.ok
         THEN Out(wm, "Err", "focus", "none", NoDrag)
         ELSE Out(with_focused_workspace(wm, r.ws), "cont", "focus", "none", NoDrag)

\* process_event lines 118-125: the last (monitor, workspace) holding the
\* window, in iteration order; <<-1, -1>> for None.
switch_to(wm, hwnd) ==
    LET holders == {p \in (0..(Len(wm.monitors) - 1)) \X (0..(NumWorkspaces - 1)) :
                        contains_window(wm.monitors[p[1] + 1].workspaces[p[2] + 1], hwnd)}
    IN IF holders = {} THEN <<-1, -1>>
       ELSE CHOOSE p \in holders :
               \A q \in holders : q[1] < p[1] \/ (q[1] = p[1] /\ q[2] <= p[2])

\* process_event lines 128-133: whether Show switches focus to the holder.
show_switches(wm, indices) ==
    /\ wm.focused_monitor_idx # indices[1]
    /\ focused_monitor(wm).focused_workspace_idx # indices[2]

\* process_event lines 143-146.
show_insert(wm, hwnd) ==
    LET ws == focused_workspace(wm) IN
    IF ws.containers = <<>> \/ ~contains_window(ws, hwnd)
    THEN Out(update_focused_workspace(
                 with_focused_workspace(wm, new_container_for_window(ws, hwnd)), FALSE),
             "cont", "show-insert", UpdateKind(FALSE), NoDrag)
    ELSE Out(wm, "cont", "show-known", "none", NoDrag)

\* process_event lines 117-147.
show_arm(wm, hwnd) ==
    LET indices == switch_to(wm, hwnd) IN
    IF indices # <<-1, -1>> /\ show_switches(wm, indices)
    THEN LET m == focus_monitor(wm, indices[1]) IN
         IF ~m.ok THEN Out(wm, "Err", "show-switch", "none", NoDrag)
         ELSE LET w == focus_workspace(m.wm, indices[2]) IN
              IF ~w.ok THEN Out(m.wm, "Err", "show-switch", "none", NoDrag)
              ELSE Out(w.wm, "Ok", "show-switch", "none", NoDrag)
    ELSE show_insert(wm, hwnd)

\* process_event lines 166-171: the invisible border.
border == Rect(12, 0, 24, 12)

\* Mutant of adjust_for_border: the left border is subtracted, not added.
adjust_for_border_left_subtracted(r) ==
    Rect(r.left - border.left, r.top + border.top,
         r.right - border.right, r.bottom - border.bottom)

\* process_event lines 173-177.
adjust_for_border(r) ==
    Rect(r.left + border.left, r.top + border.top,
         r.right - border.right, r.bottom - border.bottom)

\* process_event lines 179-184.
resize_delta(new_position, old_position) ==
    Rect(new_position.left - old_position.left,
         new_position.top - old_position.top,
         new_position.right - old_position.right,
         new_position.bottom - old_position.bottom)

\* process_event line 186.
is_move(resize) == resize.right = 0 /\ resize.bottom = 0

Abs(x) == IF x < 0 THEN -x ELSE x

\* Mutant of resize_op: the delta is not doubled.
resize_op_not_doubled(coordinate, comparator, direction) ==
    LET adjusted == coordinate
        decrease == IF comparator = ">" THEN adjusted > 0 ELSE adjusted < 0
    IN <<direction, IF decrease THEN "Decrease" ELSE "Increase", Abs(adjusted)>>

\* process_event lines 201-212: the resize_op! macro; comparator is ">" or "<".
resize_op(coordinate, comparator, direction) ==
    LET adjusted == coordinate * 2
        decrease == IF comparator = ">" THEN adjusted > 0 ELSE adjusted < 0
    IN <<direction, IF decrease THEN "Decrease" ELSE "Increase", Abs(adjusted)>>

\* Mutant of resize_ops: right and bottom are honoured whatever left and top are.
resize_ops_every_edge(resize) ==
    (IF resize.left # 0 THEN <<resize_op(resize.left, ">", "Left")>> ELSE <<>>)
    \o (IF resize.top # 0 THEN <<resize_op(resize.top, ">", "Up")>> ELSE <<>>)
    \o (IF resize.right # 0 THEN <<resize_op(resize.right, "<", "Right")>> ELSE <<>>)
    \o (IF resize.bottom # 0 THEN <<resize_op(resize.bottom, "<", "Down")>> ELSE <<>>)

\* process_event lines 214-228: the resize operations, in the order pushed.
resize_ops(resize) ==
    (IF resize.left # 0 THEN <<resize_op(resize.left, ">", "Left")>> ELSE <<>>)
    \o (IF resize.top # 0 THEN <<resize_op(resize.top, ">", "Up")>> ELSE <<>>)
    \o (IF resize.right # 0 /\ resize.left = 0
        THEN <<resize_op(resize.right, "<", "Right")>> ELSE <<>>)
    \o (IF resize.bottom # 0 /\ resize.top = 0
        THEN <<resize_op(resize.bottom, "<", "Down")>> ELSE <<>>)

\* process_event lines 163-228: the border adjustment, the delta against the
\* pre-drag rectangle, the classification, and the operations of a resize.
drag_outcome(old_position, raw) ==
    LET new_position == adjust_for_border(raw)
        resize == resize_delta(new_position, old_position)
    IN [old_position |-> old_position, new_position |-> new_position,
        resize |-> resize, is_move |-> is_move(resize), target |-> -1,
        ops |-> IF is_move(resize) THEN <<>> ELSE resize_ops(resize)]

\* process_event lines 158-162: the slot whose latest_layout rectangle is taken
\* as the pre-drag position.
drag_source_idx(ws, hwnd) == ws.focused_container_idx

\* process_event lines 148-236; raw is what WindowsApi::window_rect answers
\* (it fails for an invalid handle), point the pointer position.
move_resize_end_arm(wm, hwnd, is_window, raw, point) ==
    LET ws == focused_workspace(wm) IN
    IF hwnd \in ws.floating_windows
    THEN Out(wm, "Ok", "drag-floating", "none", NoDrag)
    ELSE
    LET focused_idx == drag_source_idx(ws, hwnd) IN
    IF focused_idx + 1 \notin 1..Len(ws.latest_layout)
    THEN Out(wm, "Err", "drag-no-layout", "none", NoDrag)
    ELSE IF ~is_window
    THEN Out(wm, "Err", "drag-no-rect", "none", NoDrag)
    ELSE
    LET old_position == ws.latest_layout[focused_idx + 1]
        target_idx == container_idx_from_current_point(ws, point)
        measured == drag_outcome(old_position, raw)
        resize == measured.resize
        drag == [measured EXCEPT !.target = IF is_move(resize) THEN target_idx ELSE -1]
    IN IF is_move(resize)
       THEN IF target_idx # -1
            THEN Out(update_focused_workspace(
                         with_focused_workspace(wm, swap_containers(ws, focused_idx, target_idx)),
                         FALSE),
                     "cont", "drag-swap", UpdateKind(FALSE), drag)
            ELSE Out(update_focused_workspace(wm, TRUE),
                     "cont", "drag-snap", UpdateKind(TRUE), drag)
       ELSE Out(update_focused_workspace(wm, FALSE),
                "cont", "drag-resize", UpdateKind(FALSE), drag)

\* process_event lines 86-238: the dispatch on the event kind.
dispatch(wm, event, inp) ==
    CASE event.kind \in {"Minimize", "Destroy"} -> remove_arm(wm, event.hwnd, "remove")
      [] event.kind = "Hide" ->
            hide_arm(wm, event.hwnd, event.hwnd \notin inp.invalid, inp.hidden)
      [] event.kind = "FocusChange" -> focus_change_arm(wm, event.hwnd)
      [] event.kind = "Show" -> show_arm(wm, event.hwnd)
      [] event.kind = "MoveResizeEnd" ->
            move_resize_end_arm(wm, event.hwnd, event.hwnd \notin inp.invalid,
                                inp.raw, inp.point)
      [] OTHER -> Out(wm, "cont", "mouse-capture", "none", NoDrag)

\* process_event lines 241-250: the handles of all containers, in order.
snapshot(wm) ==
    Flatten([i \in 1..Len(wm.monitors) |->
        Flatten([j \in 1..Len(wm.monitors[i].workspaces) |->
            Flatten(wm.monitors[i].workspaces[j].containers)])])

\* What process_event leaves behind: the model, the persisted snapshot, the
\* result, and what it did.
Final(o, known, result, persisted) ==
    [wm |-> o.wm, known_hwnds |-> known, result |-> result, branch |-> o.branch,
     update |-> o.update, drag |-> o.drag, persisted |-> persisted]

\* process_event lines 45-84: pause check, focus resync, orphan reaping and the
\* MouseCapture return.
pe_reap(wm, paused, event, inp) ==
    IF ignoring_while_paused(paused)
    THEN Out(wm, "Ok", "paused", "none", NoDrag)
    ELSE LET f == focus_resync(wm, event, inp.monitor_idx) IN
         IF ~f.ok
         THEN Out(wm, "Err", "no-monitor", "none", NoDrag)
         ELSE IF only_reaping(event)
              THEN Out(reap_all(f.wm, inp.invalid), "Ok", "mouse-capture", "none", NoDrag)
              ELSE Out(reap_all(f.wm, inp.invalid), "cont", "reaped", "none", NoDrag)

\* process_event lines 86-262: the dispatch, then the snapshot and its write
\* (fs_ok: the home directory exists and the file opens).
pe_dispatch(wm, known, event, inp) ==
    LET d == dispatch(wm, event, inp) IN
    IF d.result # "cont"
    THEN Final(d, known, d.result, FALSE)
    ELSE IF ~inp.fs_ok
         THEN Final(d, known, "Err", FALSE)
         ELSE Final(d, snapshot(d.wm), "Ok", TRUE)

\* process_event from line 86 on, given the outcome r of lines 45-84.
pe_finish(r, known, event, inp) ==
    IF r.result # "cont"
    THEN Final(r, known, r.result, FALSE)
    ELSE pe_dispatch(r.wm, known, event, inp)

\* WindowManager::process_event, lines 44-263.
process_event(wm, paused, known, event, inp) ==
    pe_finish(pe_reap(wm, paused, event, inp), known, event, inp)

\* ------------------------------------------------------------------ inputs
\* The platform's answers during one process_event call.  None is consulted
\* while paused, and each only by the event kinds that ask for it:
\*   monitor_idx  monitor_idx_from_window (-1 for None)
\*   invalid      the handles for which Window::is_window is false
\*   hidden       whether HIDDEN_HWNDS (main.rs line 46), which Window::hide and
\*                Window::restore maintain, holds the event's handle
\*   fs_ok        whether the snapshot file can be opened and written (a failed
\*                write changes nothing but the result: the model is updated
\*                before it, and the file is left as it was)
MonitorAnswers(paused, kind) ==
    IF ~paused /\ kind \in {"FocusChange", "Show", "MoveResizeEnd"}
    THEN -1..(NumMonitors - 1)
    ELSE {-1}

InvalidAnswers(paused) == IF paused THEN {{}} ELSE SUBSET Hwnds

HiddenAnswers(paused, kind) == IF ~paused /\ kind = "Hide" THEN BOOLEAN ELSE {FALSE}

FsAnswers == {TRUE}

\* How a drag may change a window's rectangle, as (left, top, width, height)
\* deltas: a pure move, or a drag of the left edge.
DragDeltas == {<<0, 0, 0, 0>>, <<-10, 0, 10, 0>>}

AddDelta(r, d) == Rect(r.left + d[1], r.top + d[2], r.right + d[3], r.bottom + d[4])

OutsidePoint == [x |-> -1, y |-> -1]

\* The ends of a drag on workspace ws: the raw rectangle WindowsApi::window_rect
\* answers (a slot's rectangle, moved or resized, with its invisible border) and
\* the pointer position (inside a slot, or outside all).
DragEnds(kind, ws) ==
    IF kind = "MoveResizeEnd" /\ ws.latest_layout # <<>>
    THEN {[raw |-> RawOf(AddDelta(ws.latest_layout[k], d)), point |-> p] :
              k \in 1..Len(ws.latest_layout), d \in DragDeltas,
              p \in {[x |-> ws.latest_layout[j].left + 1, y |-> ws.latest_layout[j].top + 1] :
                        j \in 1..Len(ws.latest_layout)} \cup {OutsidePoint}}
    ELSE {[raw |-> RawOf(NoRect), point |-> OutsidePoint]}

\* ------------------------------------------------------------------ actions
NoLast ==
    [kind |-> "none", hwnd |-> 0, paused |-> FALSE, invalid |-> {}, hidden |-> FALSE,
     after_shows |-> FALSE, reaped |-> 0,
     result |-> "none", branch |-> "none", update |-> "none", drag |-> NoDrag,
     persisted |-> FALSE]

InitWM ==
    /\ monitors = [m \in 1..NumMonitors |-> EmptyMonitor(m)]
    /\ focused_monitor_idx = 0
    /\ is_paused = FALSE
    /\ known_hwnds = <<>>
    /\ last = NoLast
    /\ only_shows = TRUE

NoEvent == [seq |-> 0, kind |-> "none", hwnd |-> 0, invalid |-> {}, result |-> "none"]

InitThreads ==
    /\ incoming_events = <<>>
    /\ wm_lock = "free"
    /\ pc = [events |-> "recv", commands |-> "idle", main |-> "wait"]
    /\ current = NoEvent
    /\ sent = 0
    /\ begun = <<>>
    /\ ended = <<>>
    /\ failed = {}

NoProbe == [stage |-> "none", drag |-> NoDrag]

Init == InitWM /\ InitThreads /\ probe = NoProbe

\* listen_for_events lines 28-30: the event loop takes the WindowManager lock
\* and runs process_event on the event received.
ProcessEvent ==
    /\ last.kind = "none"
    /\ \E kind \in EventKinds, hwnd \in Hwnds :
       \E invalid \in InvalidAnswers(is_paused), fs_ok \in FsAnswers,
          monitor_idx \in MonitorAnswers(is_paused, kind),
          hidden \in HiddenAnswers(is_paused, kind) :
        LET event == [kind |-> kind, hwnd |-> hwnd]
            wm == WM(monitors, focused_monitor_idx)
            pre == pe_reap(wm, is_paused, event,
                           [monitor_idx |-> monitor_idx, invalid |-> invalid])
        IN \E drag \in DragEnds(kind, focused_workspace(pre.wm)) :
            LET inp == [monitor_idx |-> monitor_idx, invalid |-> invalid,
                        hidden |-> hidden, raw |-> drag.raw, point |-> drag.point,
                        fs_ok |-> fs_ok]
                f == pe_finish(pre, known_hwnds, event, inp)
            IN /\ monitors' = f.wm.monitors
               /\ focused_monitor_idx' = f.wm.focused_monitor_idx
               /\ known_hwnds' = f.known_hwnds
               /\ last' = [kind |-> kind, hwnd |-> hwnd, paused |-> is_paused,
                           invalid |-> invalid, hidden |-> hidden,
                           after_shows |-> only_shows,
                           reaped |-> Len(snapshot(wm)) - Len(snapshot(pre.wm)),
                           result |-> f.result, branch |-> f.branch, update |-> f.update,
                           drag |-> f.drag, persisted |-> f.persisted]
               /\ only_shows' = (only_shows /\ kind = "Show" /\ ~is_paused)
               /\ UNCHANGED <<is_paused, threadVars, probe>>

\* listen_for_events lines 30-34: the result is matched (an error is logged),
\* the lock guard is dropped and the loop goes back to the channel.
EventReturn ==
    /\ last.kind # "none"
    /\ last' = NoLast
    /\ UNCHANGED <<wmVars, only_shows, threadVars, probe>>

\* Command: toggle the pause flag (under the WindowManager lock).
TogglePause ==
    /\ last.kind = "none"
    /\ is_paused' = ~is_paused
    /\ only_shows' = FALSE
    /\ UNCHANGED <<monitors, focused_monitor_idx, known_hwnds, last, threadVars, probe>>

\* Command: switch the focused monitor's workspace.
FocusWorkspace ==
    /\ last.kind = "none"
    /\ \E idx \in 0..(NumWorkspaces - 1) :
        LET r == focus_workspace(WM(monitors, focused_monitor_idx), idx) IN
        /\ r.ok
        /\ monitors' = r.wm.monitors
        /\ only_shows' = FALSE
        /\ UNCHANGED <<focused_monitor_idx, is_paused, known_hwnds, last, threadVars, probe>>

\* Command: switch the focused monitor.
FocusMonitor ==
    /\ last.kind = "none"
    /\ \E idx \in 0..(NumMonitors - 1) :
        LET r == focus_monitor(WM(monitors, focused_monitor_idx), idx) IN
        /\ r.ok
        /\ focused_monitor_idx' = r.wm.focused_monitor_idx
        /\ only_shows' = FALSE
        /\ UNCHANGED <<monitors, is_paused, known_hwnds, last, threadVars, probe>>

Next ==
    \/ ProcessEvent
    \/ EventReturn
    \/ TogglePause
    \/ FocusWorkspace
    \/ FocusMonitor

Spec == Init /\ [][Next]_vars

\* ------------------------------------------------------------------ the drag alone
\* The classification of a drag as a pure function of the pre-drag layout
\* rectangle and the raw post-drag rectangle.
ProbeSteps == {-10, 0, 10, 24}

ProbeDeltas == ProbeSteps \X ProbeSteps \X ProbeSteps \X ProbeSteps

\* The layout rectangles a tiled window can have.
SlotRects ==
    UNION {{Layout(work_area_size(m), n)[k] : k \in 1..n} :
               m \in 1..NumMonitors, n \in 1..MaxHwnd}

InitDrag ==
    /\ InitWM
    /\ InitThreads
    /\ probe \in {[stage |-> "dragged",
                    drag |-> [NoDrag EXCEPT !.old_position = old,
                                            !.new_position = RawOf(AddDelta(old, d))]] :
                       old \in SlotRects, d \in ProbeDeltas}

\* process_event lines 163-228 on the probe: new_position holds the raw
\* rectangle before, the adjusted one after.
ClassifyDrag ==
    /\ probe.stage = "dragged"
    /\ probe' = [stage |-> "classified",
                 raw |-> probe.drag.new_position,
                 drag |-> drag_outcome(probe.drag.old_position, probe.drag.new_position)]
    /\ UNCHANGED <<wmVars, callVars, threadVars>>

NextDrag == ClassifyDrag

SpecDrag == InitDrag /\ [][NextDrag]_vars

\* ------------------------------------------------------------------ the threads
\* The event source, the event-loop thread of listen_for_events and the command
\* thread of listen_for_commands, sharing the WindowManager behind one mutex.
\* process_event is taken in two steps under the lock (lines 45-84, then 86-262),
\* a command in one.
ThreadEventKinds == {"Show", "Destroy", "MouseCapture"}

Commands == {"toggle-pause", "focus-monitor"}

\* Mutant of lock_available: the mutex is not waited for.
lock_available_always(lock) == TRUE

\* Mutant of lock_available: only the main thread's hold is waited for.
lock_available_unless_main(lock) == lock # "main"

\* Mutex::lock (process_event.rs line 30) returns once the mutex is free.
lock_available(lock) == lock = "free"

\* Mutant of recv: the newest event of the channel is taken.
recv_newest(chan) == [event |-> chan[Len(chan)], rest |-> SubSeq(chan, 1, Len(chan) - 1)]

\* select! recv(receiver) (process_event.rs lines 27-28): the oldest event.
recv(chan) == [event |-> Head(chan), rest |-> Tail(chan)]

\* winevent_listener: the event source puts an event on the channel.
WinEvent ==
    /\ sent < MaxEvents
    /\ \E kind \in ThreadEventKinds, hwnd \in Hwnds :
        incoming_events' = Append(incoming_events,
                                  [NoEvent EXCEPT !.seq = sent + 1, !.kind = kind, !.hwnd = hwnd])
    /\ sent' = sent + 1
    /\ UNCHANGED <<wmVars, callVars, wm_lock, pc, current, begun, ended, failed, probe>>

\* listen_for_events lines 27-29: an event is received.
EvRecv ==
    /\ pc.events = "recv"
    /\ incoming_events # <<>>
    /\ current' = recv(incoming_events).event
    /\ incoming_events' = recv(incoming_events).rest
    /\ pc' = [pc EXCEPT !.events = "lock"]
    /\ UNCHANGED <<wmVars, callVars, wm_lock, sent, begun, ended, failed, probe>>

\* listen_for_events line 30: wm.lock(), and process_event is entered.
EvLock ==
    /\ pc.events = "lock"
    /\ lock_available(wm_lock)
    /\ wm_lock' = "events"
    /\ begun' = Append(begun, current.seq)
    /\ pc' = [pc EXCEPT !.events = "reap"]
    /\ UNCHANGED <<wmVars, callVars, incoming_events, current, sent, ended, failed, probe>>

\* process_event lines 45-84.
EvReap ==
    /\ pc.events = "reap"
    /\ \E invalid \in InvalidAnswers(is_paused),
          monitor_idx \in MonitorAnswers(is_paused, current.kind) :
        LET r == pe_reap(WM(monitors, focused_monitor_idx), is_paused, current,
                         [monitor_idx |-> monitor_idx, invalid |-> invalid])
        IN /\ monitors' = r.wm.monitors
           /\ focused_monitor_idx' = r.wm.focused_monitor_idx
           /\ current' = [current EXCEPT !.invalid = invalid, !.result = r.result]
           /\ pc' = [pc EXCEPT !.events = IF r.result = "cont" THEN "dispatch" ELSE "result"]
    /\ UNCHANGED <<is_paused, known_hwnds, callVars, incoming_events, wm_lock, sent,
                   begun, ended, failed, probe>>

\* process_event lines 86-262.
EvDispatch ==
    /\ pc.events = "dispatch"
    /\ \E fs_ok \in BOOLEAN :
        LET f == pe_dispatch(WM(monitors, focused_monitor_idx), known_hwnds, current,
                             [invalid |-> current.invalid, hidden |-> FALSE,
                              raw |-> RawOf(NoRect), point |-> OutsidePoint, fs_ok |-> fs_ok])
        IN /\ monitors' = f.wm.monitors
           /\ focused_monitor_idx' = f.wm.focused_monitor_idx
           /\ known_hwnds' = f.known_hwnds
           /\ current' = [current EXCEPT !.result = f.result]
    /\ pc' = [pc EXCEPT !.events = "result"]
    /\ UNCHANGED <<is_paused, callVars, incoming_events, wm_lock, sent, begun, ended, failed, probe>>

\* Mutant of after_result: the event loop ends on an error.
after_result_stops_on_error(result) == IF result = "Err" THEN "stopped" ELSE "recv"

\* listen_for_events lines 31-34: both arms of the match fall out of it, and
\* the loop goes back to the channel.
after_result(result) == "recv"

\* listen_for_events lines 30-34: process_event has returned, the result is
\* matched (an error is logged) and the lock guard is dropped.
EvResult ==
    /\ pc.events = "result"
    /\ wm_lock' = "free"
    /\ ended' = Append(ended, current.seq)
    /\ failed' = IF current.result = "Err" THEN failed \cup {current.seq} ELSE failed
    /\ current' = NoEvent
    /\ pc' = [pc EXCEPT !.events = after_result(current.result)]
    /\ UNCHANGED <<wmVars, callVars, incoming_events, sent, begun, probe>>

\* The command thread takes the lock for one command.
CmdLock ==
    /\ pc.commands = "idle"
    /\ lock_available(wm_lock)
    /\ wm_lock' = "commands"
    /\ pc' = [pc EXCEPT !.commands = "run"]
    /\ UNCHANGED <<wmVars, callVars, incoming_events, current, sent, begun, ended, failed, probe>>

\* The command runs on the WindowManager.
CmdRun ==
    /\ pc.commands = "run"
    /\ \E cmd \in Commands, idx \in 0..(NumMonitors - 1) :
        /\ is_paused' = IF cmd = "toggle-pause" THEN ~is_paused ELSE is_paused
        /\ focused_monitor_idx' =
               IF cmd = "focus-monitor"
               THEN focus_monitor(WM(monitors, focused_monitor_idx), idx).wm.focused_monitor_idx
               ELSE focused_monitor_idx
    /\ pc' = [pc EXCEPT !.commands = "unlock"]
    /\ UNCHANGED <<monitors, known_hwnds, callVars, incoming_events, wm_lock, current, sent,
                   begun, ended, failed, probe>>

\* The command is done and the lock guard is dropped.
CmdUnlock ==
    /\ pc.commands = "unlock"
    /\ wm_lock' = "free"
    /\ pc' = [pc EXCEPT !.commands = "idle"]
    /\ UNCHANGED <<wmVars, callVars, incoming_events, current, sent, begun, ended, failed, probe>>

NextThreads ==
    \/ WinEvent
    \/ EvRecv
    \/ EvLock
    \/ EvReap
    \/ EvDispatch
    \/ EvResult
    \/ CmdLock
    \/ CmdRun
    \/ CmdUnlock

SpecThreads == Init /\ [][NextThreads]_vars

\* The event source sends events of one window only.
OneWindow == \A i \in 1..Len(incoming_events') : incoming_events'[i].hwnd = 1

NextThreadsFair ==
    \/ (WinEvent /\ OneWindow)
    \/ EvRecv
    \/ EvLock
    \/ EvReap
    \/ EvDispatch
    \/ EvResult
    \/ CmdLock
    \/ CmdRun
    \/ CmdUnlock

\* The steps of the event loop and of the command thread that wait for nothing.
EvStep == EvRecv \/ EvReap \/ EvDispatch \/ EvResult

CmdStep == CmdRun \/ CmdUnlock

\* The threads under fair scheduling, the events being those of one window: a
\* thread that can take a step takes it, and a thread waiting for the mutex
\* gets it when it is free again and again (the command thread holds it for
\* one command at a time).
SpecThreadsFair ==
    /\ Init
    /\ [][NextThreadsFair]_vars
    /\ WF_vars(EvStep)
    /\ SF_vars(EvLock)
    /\ WF_vars(CmdStep)

\* ------------------------------------------------------------------ shutdown
\* The main thread (main.rs lines 155-171) beside the other threads: it waits
\* for the interrupt signal, runs restore_all_windows under the WindowManager
\* lock, and exits the process, which ends every thread.
Alive == pc.main # "exited"

\* main.rs lines 156-164: the handler sends on the ctrl-c channel and the main
\* thread receives.
CtrlC ==
    /\ pc.main = "wait"
    /\ pc' = [pc EXCEPT !.main = "signalled"]
    /\ UNCHANGED <<wmVars, callVars, incoming_events, wm_lock, current, sent, begun, ended,
                   failed, probe>>

\* main.rs line 170: wm.lock().
MainLock ==
    /\ pc.main = "signalled"
    /\ lock_available(wm_lock)
    /\ wm_lock' = "main"
    /\ pc' = [pc EXCEPT !.main = "restoring"]
    /\ UNCHANGED <<wmVars, callVars, incoming_events, current, sent, begun, ended, failed,
                   probe>>

\* main.rs line 170: restore_all_windows() runs (it shows the windows again and
\* leaves the containers as they are), and the lock guard, a temporary of the
\* statement, is dropped at its end.
MainRestore ==
    /\ pc.main = "restoring"
    /\ wm_lock' = "free"
    /\ pc' = [pc EXCEPT !.main = "restored"]
    /\ UNCHANGED <<wmVars, callVars, incoming_events, current, sent, begun, ended, failed,
                   probe>>

\* main.rs line 171: std::process::exit(130).
MainExit ==
    /\ pc.main = "restored"
    /\ pc' = [pc EXCEPT !.main = "exited"]
    /\ UNCHANGED <<wmVars, callVars, incoming_events, wm_lock, current, sent, begun, ended,
                   failed, probe>>

NextShutdown ==
    \/ (Alive /\ WinEvent)
    \/ (Alive /\ EvRecv)
    \/ (Alive /\ EvLock)
    \/ (Alive /\ EvReap)
    \/ (Alive /\ EvDispatch)
    \/ (Alive /\ EvResult)
    \/ (Alive /\ CmdLock)
    \/ (Alive /\ CmdRun)
    \/ (Alive /\ CmdUnlock)
    \/ CtrlC
    \/ MainLock
    \/ MainRestore
    \/ MainExit

SpecShutdown == Init /\ [][NextShutdown]_vars

\* ------------------------------------------------------------------ claims
TheWM == WM(monitors, focused_monitor_idx)

AllWorkspaces(ms) ==
    {ms[i].workspaces[j] : i \in 1..Len(ms), j \in 1..NumWorkspaces}

\* Every workspace has one layout rectangle per container.
LayoutAligned(ms) ==
    \A ws \in AllWorkspaces(ms) : Len(ws.latest_layout) = Len(ws.containers)

\* A process_event call has just been made (the step from the event loop's
\* receive to the call's outcome).
Called == last.kind = "none" /\ last'.kind # "none"

\* C1: while the pause flag is set, process_event on an event of any kind
\* returns Ok and leaves every monitor, workspace, container, floating window,
\* focused index, latest_layout and the persisted snapshot unchanged.
C1_PausedEventChangesNothing ==
    [][(Called /\ is_paused) =>
          /\ last'.result = "Ok"
          /\ monitors' = monitors
          /\ focused_monitor_idx' = focused_monitor_idx
          /\ known_hwnds' = known_hwnds]_vars

\* C1 witness: a Destroy for a window of the focused workspace was processed
\* while paused.
C1_Witness ==
    /\ last.kind = "Destroy" /\ last.paused
    /\ contains_window(focused_workspace(TheWM), last.hwnd)

\* C2 (as claimed): after a sequence of unpaused Show events followed by
\* Destroy(W), no container of any workspace of any monitor holds W.
C2_DestroyLeavesNoContainer ==
    (last.kind = "Destroy" /\ last.after_shows) =>
        \A ws \in AllWorkspaces(monitors) : ~contains_window(ws, last.hwnd)

\* C4: an unpaused Hide for a valid window of a multi-window executable removes
\* the window from the focused workspace and recomputes the layout when the
\* handle is not in the allow-list, and when it is, the dispatch changes no
\* monitor, workspace or container (the model is what reaping left).
C4_HideDisambiguation ==
    [][(/\ Called /\ last'.kind = "Hide" /\ ~last'.paused
        /\ last'.hwnd \notin last'.invalid
        /\ exe(last'.hwnd) \in MULTI_WINDOW_EXES) =>
          LET reaped == reap_all(TheWM, last'.invalid)
              before == focused_workspace(reaped)
              after == focused_workspace(WM(monitors', focused_monitor_idx'))
          IN IF last'.hidden
             THEN /\ monitors' = reaped.monitors
                  /\ focused_monitor_idx' = focused_monitor_idx
             ELSE /\ ~contains_window(after, last'.hwnd)
                  /\ last'.hwnd \notin after.floating_windows
                  /\ Len(after.latest_layout) = Len(after.containers)
                  /\ contains_window(before, last'.hwnd) =>
                         /\ last'.result = "Ok"
                         /\ last'.update # "none"
                         /\ Len(after.containers) < Len(before.containers)]_vars

\* C4 witness: both cases of such a Hide for a window the focused workspace
\* held: removed, or kept because the handle is in the allow-list.
C4_Witness ==
    /\ last.kind = "Hide" /\ ~last.paused /\ last.hwnd \notin last.invalid
    /\ exe(last.hwnd) \in MULTI_WINDOW_EXES
    /\ \/ last.hidden /\ contains_window(focused_workspace(TheWM), last.hwnd)
       \/ ~last.hidden /\ last.update # "none" /\ last.result = "Ok"

\* C5 (as claimed): a MoveResizeEnd for a tiled window W classified as a move
\* with the pointer inside slot j exchanges W's own container (slot i) with the
\* container at slot j, keeping the number of containers and layout rectangles.
C5_MoveSwapsOwnContainer ==
    [][(/\ Called /\ last'.kind = "MoveResizeEnd" /\ last'.result = "Ok"
        /\ last'.drag.is_move /\ last'.drag.target # -1
        /\ contains_window(
               focused_workspace(reap_all(WM(monitors, focused_monitor_idx'), last'.invalid)),
               last'.hwnd)) =>
          LET before == focused_workspace(
                            reap_all(WM(monitors, focused_monitor_idx'), last'.invalid))
              after == focused_workspace(WM(monitors', focused_monitor_idx'))
              i == container_idx_for_window(before, last'.hwnd) - 1
              j == last'.drag.target
          IN /\ after.containers = swap_containers(before, i, j).containers
             /\ Len(after.latest_layout) = Len(before.latest_layout)]_vars

\* C8: after every process_event call that returns Ok, every workspace of every
\* monitor has as many layout rectangles as containers.
C8_LayoutAlignedAfterOk ==
    (last.kind # "none" /\ last.result = "Ok") => LayoutAligned(monitors)

\* C8 witness: calls returned Ok after reaping, and after inserting a container.
C8_Witness ==
    /\ last.result = "Ok"
    /\ last.reaped > 0
    /\ \E ws \in AllWorkspaces(monitors) : Len(ws.containers) > 0

\* C9 (as claimed): after every event processed while unpaused, on every exit
\* path, the persisted snapshot is the list of the handles the model holds.
C9_SnapshotIsCurrent ==
    (last.kind # "none" /\ ~last.paused) => known_hwnds = snapshot(TheWM)

\* The event-loop thread is inside process_event; the command thread is inside
\* a command.
InEvent == pc.events \in {"reap", "dispatch", "result"}

InCommand == pc.commands \in {"run", "unlock"}

\* C3: a process_event call of the event-loop thread and a command of the
\* command thread never overlap: the lock is held exactly from the start to
\* the end of each, by one of them at a time, and while one of them is inside
\* its operation the other changes nothing of the WindowManager.
C3_EventsAndCommandsExclude ==
    /\ [](/\ ~(InEvent /\ InCommand)
          /\ (wm_lock = "events") <=> InEvent
          /\ (wm_lock = "commands") <=> InCommand)
    /\ [][/\ (InEvent /\ pc'.events # "recv") =>
                (is_paused' = is_paused /\ pc'.commands = pc.commands)
          /\ (InCommand /\ pc'.commands # "idle") =>
                (/\ monitors' = monitors
                 /\ known_hwnds' = known_hwnds
                 /\ pc'.events \in {"recv", "lock"})]_vars

\* C3 witness: the event-loop thread waits for the lock with an event in hand
\* while the command thread is inside a command.
C3_Witness ==
    /\ pc.events = "lock"
    /\ pc.commands = "run"
    /\ wm_lock = "commands"

\* C6 (as claimed): with the pre-drag rectangle {0,0,100,100} and the adjusted
\* post-drag rectangle {-10,0,100,100} the drag is a resize of exactly one
\* operation, Left Increase 20.
C6_LeftOnlyDeltaIsResize ==
    (/\ probe.stage = "classified"
     /\ probe.drag.old_position = Rect(0, 0, 100, 100)
     /\ probe.drag.new_position = Rect(-10, 0, 100, 100)) =>
        (/\ ~probe.drag.is_move
         /\ probe.drag.ops = <<<<"Left", "Increase", 20>>>>)

\* C6 (amended): a drag whose delta is negative on left and zero on top and
\* bottom is a resize exactly when its delta on right is not zero, and then
\* issues exactly one operation, Left Increase 2*|left delta|; with a zero
\* delta on right it is a move and no operation is issued.
C6_LeftDeltaResizeNeedsRightDelta ==
    (/\ probe.stage = "classified"
     /\ probe.drag.resize.left < 0
     /\ probe.drag.resize.top = 0
     /\ probe.drag.resize.bottom = 0) =>
        IF probe.drag.resize.right = 0
        THEN probe.drag.is_move /\ probe.drag.ops = <<>>
        ELSE /\ ~probe.drag.is_move
             /\ probe.drag.ops = <<<<"Left", "Increase", 2 * Abs(probe.drag.resize.left)>>>>

\* C6 witness: pre-drag {0,0,100,100}, adjusted post-drag {-10,0,110,100}: one
\* operation Left Increase 20.
C6_Witness ==
    /\ probe.stage = "classified"
    /\ probe.drag.old_position = Rect(0, 0, 100, 100)
    /\ probe.drag.new_position = Rect(-10, 0, 110, 100)
    /\ probe.drag.ops = <<<<"Left", "Increase", 20>>>>

C10_EventsInChannelOrder ==
    /\ \A i \in 1..Len(begun) : begun[i] = i
    /\ Len(ended) <= Len(begun)
    /\ Len(begun) - Len(ended) <= 1
    /\ ended = SubSeq(begun, 1, Len(ended))
    /\ InEvent <=> (Len(begun) = Len(ended) + 1)

\* C10 witness: an event's call has returned, two later events wait on the
\* channel, and a command is running.
C10_Witness ==
    /\ ended = <<1>>
    /\ Len(incoming_events) = 2
    /\ pc.commands = "run"

\* No workspace holds an empty container or a window whose handle is in invalid.
NoOrphans(ms, invalid) ==
    \A ws \in AllWorkspaces(ms) :
        \A i \in 1..Len(ws.containers) :
            /\ ws.containers[i] # <<>>
            /\ \A k \in 1..Len(ws.containers[i]) : ws.containers[i][k] \notin invalid

\* C13 (as claimed): after every event of every kind processed while unpaused,
\* an event whose window has no owning monitor included, no workspace holds an
\* empty container or a window whose handle was invalid when the call started
\* (a window the same call's Show arm inserted aside).
C13_EveryEventReaps ==
    (last.kind # "none" /\ ~last.paused /\ last.branch # "show-insert") =>
        NoOrphans(monitors, last.invalid)

\* The Hide arm's choice in the call just made.
HideRemoved == last.branch = "hide-remove"

OtherHolders(wm, hwnd) ==
    {p \in (0..(Len(wm.monitors) - 1)) \X (0..(NumWorkspaces - 1)) :
        /\ p # <<wm.focused_monitor_idx, focused_monitor(wm).focused_workspace_idx>>
        /\ contains_window(wm.monitors[p[1] + 1].workspaces[p[2] + 1], hwnd)}

\* C15 (as claimed): a Show for a window held by a workspace other than the
\* focused one (on a different monitor, or a different workspace of the focused
\* monitor) switches focus there and creates no container: when a Show has
\* created a container, no other workspace holds the window.
C15_ShowInsertsOnlyUnheld ==
    (last.kind = "Show" /\ last.branch = "show-insert") =>
        OtherHolders(TheWM, last.hwnd) = {}

\* C16 (as claimed): when a Show creates a container in the focused workspace,
\* the layout update that follows is a hard update, as the one of a drag
\* snapped back, and not the soft update of removals, swaps and resizes.
C16_ShowInsertUpdatesHard ==
    (last.kind = "Show" /\ last.branch = "show-insert") => last.update = "hard"

\* The containers of cs with the windows of invalid handle taken out and the
\* containers left empty dropped, in their order.
Survivors(cs, invalid) ==
    SelectSeq([i \in 1..Len(cs) |-> SelectSeq(cs[i], LAMBDA w : w \notin invalid)],
              LAMBDA c : c # <<>>)

EdgeOp(direction, delta) ==
    <<direction,
      IF (direction \in {"Left", "Up"} /\ 2 * delta > 0)
         \/ (direction \in {"Right", "Down"} /\ 2 * delta < 0)
      THEN "Decrease" ELSE "Increase",
      IF 2 * delta < 0 THEN -(2 * delta) ELSE 2 * delta>>

\* C18: a drag not classified as a move issues exactly, in this order, Left
\* iff dLeft # 0, Up iff dTop # 0, Right iff dRight # 0 and dLeft = 0, Down iff
\* dBottom # 0 and dTop = 0, each of magnitude |2*delta| and of the claimed
\* sizing; so one or two operations, never both edges of an axis.
C18_ResizeOperations ==
    (probe.stage = "classified" /\ ~probe.drag.is_move) =>
        LET d == probe.drag.resize
            ops == probe.drag.ops
            dirs == {ops[k][1] : k \in 1..Len(ops)}
        IN /\ ops = (IF d.left # 0 THEN <<EdgeOp("Left", d.left)>> ELSE <<>>)
                    \o (IF d.top # 0 THEN <<EdgeOp("Up", d.top)>> ELSE <<>>)
                    \o (IF d.right # 0 /\ d.left = 0
                        THEN <<EdgeOp("Right", d.right)>> ELSE <<>>)
                    \o (IF d.bottom # 0 /\ d.top = 0
                        THEN <<EdgeOp("Down", d.bottom)>> ELSE <<>>)
           /\ Len(ops) \in {1, 2}
           /\ ~({"Left", "Right"} \subseteq dirs)
           /\ ~({"Up", "Down"} \subseteq dirs)

\* C18 witness: a drag with non-zero deltas on all four edges issued Left and
\* Up only; and one with deltas on right and bottom only issued Right then Down.
C18_Witness ==
    /\ probe.stage = "classified"
    /\ \/ /\ probe.drag.resize = Rect(-10, 10, 10, 24)
          /\ probe.drag.ops = <<<<"Left", "Increase", 20>>, <<"Up", "Decrease", 20>>>>
       \/ /\ probe.drag.resize = Rect(0, 0, 10, -10)
          /\ probe.drag.ops = <<<<"Right", "Increase", 20>>, <<"Down", "Decrease", 20>>>>

\* C19 (as claimed): in every reachable state each window handle is held by at
\* most one container across all workspaces of all monitors (the handles of
\* all containers, listed in order, hold no handle twice).
C19_WindowInOneContainer ==
    LET held == snapshot(TheWM) IN
    \A a, b \in 1..Len(held) : held[a] = held[b] => a = b

\* C11: under fair scheduling every event placed on the channel is eventually
\* passed to process_event, however many earlier events returned an error: the
\* event loop releases the lock and goes on to the next event (again and again
\* process_event has been entered for every event sent so far).
C11_EveryEventIsProcessed ==
    []<>(\A n \in 1..sent : \E i \in 1..Len(begun) : begun[i] = n)

\* C11 witness: process_event is entered for the last event after the calls
\* for all earlier events returned an error.
C11_Witness ==
    /\ Len(begun) = MaxEvents
    /\ failed = 1..(MaxEvents - 1)
    /\ InEvent

\* C12: restore_all_windows runs only under the WindowManager lock, so never
\* while a process_event call or a command is part-way: the main thread waits
\* while one is in flight, and while it restores, no event and no command
\* starts or changes the WindowManager.
C12_RestoreWaitsForOperation ==
    /\ [](pc.main = "restoring" => (wm_lock = "main" /\ ~InEvent /\ ~InCommand))
    /\ [][/\ (pc.main = "signalled" /\ (InEvent \/ InCommand)) => pc'.main = "signalled"
          /\ (pc.main = "restoring" /\ pc'.main = "restoring") =>
                (/\ monitors' = monitors
                 /\ focused_monitor_idx' = focused_monitor_idx
                 /\ is_paused' = is_paused
                 /\ known_hwnds' = known_hwnds
                 /\ ~InEvent' /\ ~InCommand')]_vars

\* C12 witness: the signal has arrived while process_event is between its
\* reaping and its dispatch; the main thread waits for the lock.
C12_Witness ==
    /\ pc.main = "signalled"
    /\ pc.events = "dispatch"
    /\ wm_lock = "events"

\* C20 (as claimed): once restore_all_windows has run, the event-loop thread
\* does not take the WindowManager lock and process an event before the
\* process exits.
C20_NoEventAfterRestore ==
    pc.main = "restored" => ~InEvent

====
